---- MODULE Spec2Model ----
(***************************************************************************)
(* Terminal session lifecycle of bevy_ratatui: startup of the session      *)
(* context and of the optional capabilities, the per-frame schedule slots,  *)
(* the exit signal and the cleanup coordinator, destruction of the          *)
(* resources, and the restore() function of the physical-terminal backend.  *)
(*                                                                         *)
(* Two generations of the cleanup coordinator live in the sources:          *)
(*   "observer" : crossterm_context/cleanup.rs, an observer of              *)
(*                Trigger<AppExit>;                                         *)
(*   "system"   : terminal.rs, a PostUpdate system reading                  *)
(*                EventReader<AppExit>.                                     *)
(* The variable coordinator fixes which one the session was built with.     *)
(***************************************************************************)
EXTENDS Integers, Sequences, FiniteSets, TLC

\* ------------------------------------------------------------------ bounds
\* Cap on the number of exit signals raised during one session.
MaxExitSignals == 2
\* Cap on the number of explicit restore() calls in RestoreSpec.
MaxRestoreCalls == 2

\* --------------------------------------------------------------- constants
KittyEnabled == "KittyEnabled"
MouseEnabled == "MouseEnabled"
RatatuiContext == "RatatuiContext"
Resources == {KittyEnabled, MouseEnabled, RatatuiContext}

\* The schedule slots of one cycle of the host's Main schedule, in order.
Slots == <<"First", "PreUpdate", "Update", "PostUpdate", "Last">>
SlotSet == {Slots[i] : i \in 1..Len(Slots)}

\* The two ways the host delivers an event: buffered (EventWriter) or
\* triggered (observers).
Deliveries == {"write", "trigger"}

\* The terminal device as the process found it.
InitialDevice ==
    [alt |-> FALSE, raw |-> FALSE, cursor |-> TRUE, mouse |-> FALSE, kitty |-> FALSE]

VARIABLES
    coordinator,   \* "observer" or "system": the cleanup coordinator built in
    opts,          \* RatatuiPlugins: [kitty, mouse, forwarding : BOOLEAN]
    phase,         \* "Startup", a slot, "Dropping" or "Done"
    initPc,        \* position of context_setup: "idle", "entered", "done", "failed"
    ran,           \* capability startup systems that have run
    world,         \* resources present in the host world
    queue,         \* commands queued and not yet applied
    dev,           \* the terminal device
    log,           \* driver-write log: the writes that reached the device
    diag,          \* lines written to the diagnostic stream
    front,         \* what the last draw flushed: "blank" or "hello"
    exitEvents,    \* AppExit events buffered in Events<AppExit>
    unread,        \* of those, not yet read by cleanup_system's EventReader
    cleanupRan,    \* cleanup_system has run in this cycle
    panicked,      \* a panic is unwinding (or has unwound) the process
    ioFailed,      \* some device operation has failed
    cleanupApplied,\* the coordinator's removal commands have been applied
    exitsRaised,   \* history: number of exit signals raised
    ctxCreated,    \* history: RatatuiContext values constructed
    dropRestores,  \* history: restore() calls made by Drop for RatatuiContext
    dropFailures,  \* history: of those, the ones that returned Err
    calls,         \* history of explicit restore() / init() calls
    rawIn,         \* raw events the driver holds, not yet read (FIFO)
    delivered,     \* decoded events delivered to the consumers
    arrived,       \* history: the raw events that have arrived, in order
    polls,         \* history: number of polls made
    backend,       \* the soft-render backend: grid size, cells and pixmap
    image,         \* the image published to the host's renderer
    resized        \* WindowResized events not yet read

vars == <<coordinator, opts, phase, initPc, ran, world, queue, dev, log, diag,
          front, exitEvents, unread, cleanupRan, panicked, ioFailed,
          cleanupApplied, exitsRaised, ctxCreated, dropRestores, dropFailures,
          calls, rawIn, delivered, arrived, polls,
                   backend, image, resized>>

\* No soft-render backend, and no published image.
NoBackend == [cols |-> 0, rows |-> 0, cells |-> "none", pixmap |-> <<>>]
NoImage == [width |-> 0, height |-> 0, data |-> <<>>]

\* ------------------------------------------------------- restore and drops

\* The three device operations of restore(), in program order.
RestoreSteps == <<"LeaveAlternateScreen", "Show", "DisableRawMode">>

\* Effect of one device operation on the device.
DevApply(d, w) ==
    CASE w = "EnterAlternateScreen" -> [d EXCEPT !.alt = TRUE]
      [] w = "LeaveAlternateScreen" -> [d EXCEPT !.alt = FALSE]
      [] w = "EnableRawMode" -> [d EXCEPT !.raw = TRUE]
      [] w = "DisableRawMode" -> [d EXCEPT !.raw = FALSE]
      [] w = "Show" -> [d EXCEPT !.cursor = TRUE]
      [] w = "Hide" -> [d EXCEPT !.cursor = FALSE]
      [] w = "EnableMouseCapture" -> [d EXCEPT !.mouse = TRUE]
      [] w = "DisableMouseCapture" -> [d EXCEPT !.mouse = FALSE]
      [] w = "PushKeyboardEnhancementFlags" -> [d EXCEPT !.kitty = TRUE]
      [] w = "PopKeyboardEnhancementFlags" -> [d EXCEPT !.kitty = FALSE]
      [] OTHER -> d

RECURSIVE DevApplyAll(_, _)
DevApplyAll(d, ws) ==
    IF ws = <<>> THEN d ELSE DevApplyAll(DevApply(d, Head(ws)), Tail(ws))

\* Mutant of restore(): it refuses to run when the device is not in the
\* alternate screen, returning Err without issuing an operation.
RestoreStrict(d, fail) ==
    LET bad == IF d.alt THEN fail ELSE 1
        n == IF bad = 0 THEN 3 ELSE bad - 1
        done == SubSeq(RestoreSteps, 1, n)
    IN [dev |-> DevApplyAll(d, done),
        writes |-> done,
        attempted |-> IF bad = 0 THEN RestoreSteps ELSE SubSeq(RestoreSteps, 1, bad),
        ok |-> (bad = 0)]

\* restore(): LeaveAlternateScreen?, cursor::Show?, disable_raw_mode()?.
\* fail = 0: no operation fails; fail = k: the k-th operation fails, and the
\* `?` returns at once.  attempted lists the operations that were issued,
\* writes the ones that reached the device.
Restore(d, fail) ==
    LET n == IF fail = 0 THEN 3 ELSE fail - 1
        done == SubSeq(RestoreSteps, 1, n)
    IN [dev |-> DevApplyAll(d, done),
        writes |-> done,
        attempted |-> IF fail = 0 THEN RestoreSteps ELSE SubSeq(RestoreSteps, 1, fail),
        ok |-> (fail = 0)]


\* ------------------------------------------------- destruction of resources

\* The part of the state that applying and dropping commands works on.
Cur ==
    [world |-> world, dev |-> dev, log |-> log, diag |-> diag,
     restores |-> dropRestores, failures |-> dropFailures, iofail |-> ioFailed]

\* Outcomes of the device operations of one batch of drops: whether the
\* DisableMouseCapture and the keyboard-pop writes succeed, and which
\* operation of restore() fails (0: none).
IoChoices == [mouse : BOOLEAN, kitty : BOOLEAN, restore : 0..3]

\* Mutants of Drop for RatatuiContext: one that does not restore, one that
\* restores twice, and one that discards the Err of restore().
DropRatatuiContextForget(S, fail) == S

DropRatatuiContextTwice(S, fail) ==
    LET r1 == Restore(S.dev, fail)
        r2 == Restore(r1.dev, fail)
        errs == (IF r1.ok THEN 0 ELSE 1) + (IF r2.ok THEN 0 ELSE 1)
    IN [S EXCEPT !.dev = r2.dev,
                 !.log = S.log \o r1.writes \o r2.writes,
                 !.diag = S.diag \o [i \in 1..errs |-> "Failed to restore terminal"],
                 !.restores = S.restores + 2,
                 !.failures = S.failures + errs,
                 !.iofail = S.iofail \/ errs > 0]

DropRatatuiContextSilent(S, fail) ==
    LET r == Restore(S.dev, fail)
    IN [S EXCEPT !.dev = r.dev,
                 !.log = S.log \o r.writes,
                 !.restores = S.restores + 1,
                 !.failures = IF r.ok THEN S.failures ELSE S.failures + 1,
                 !.iofail = S.iofail \/ ~r.ok]

\* Drop for RatatuiContext: restore() once; an Err is printed with eprintln!.
DropRatatuiContext(S, fail) ==
    LET r == Restore(S.dev, fail)
    IN [S EXCEPT !.dev = r.dev,
                 !.log = S.log \o r.writes,
                 !.diag = IF r.ok THEN S.diag
                          ELSE Append(S.diag, "Failed to restore terminal"),
                 !.restores = S.restores + 1,
                 !.failures = IF r.ok THEN S.failures ELSE S.failures + 1,
                 !.iofail = S.iofail \/ ~r.ok]

\* Mutant of Drop for MouseEnabled: the destructor writes nothing.
DropMouseEnabledNoWrite(S, ok) == S

\* Drop for MouseEnabled: let _ = stdout().execute(DisableMouseCapture).
DropMouseEnabled(S, ok) ==
    IF ok
    THEN [S EXCEPT !.dev = DevApply(S.dev, "DisableMouseCapture"),
                   !.log = Append(S.log, "DisableMouseCapture")]
    ELSE [S EXCEPT !.iofail = TRUE]

\* Drop for KittyEnabled: the inverse write of the enabling one, its failure
\* ignored.
DropKittyEnabled(S, ok) ==
    IF ok
    THEN [S EXCEPT !.dev = DevApply(S.dev, "PopKeyboardEnhancementFlags"),
                   !.log = Append(S.log, "PopKeyboardEnhancementFlags")]
    ELSE [S EXCEPT !.iofail = TRUE]

\* The destructor of the value of resource r.
DropResource(S, r, io) ==
    CASE r = RatatuiContext -> DropRatatuiContext(S, io.restore)
      [] r = MouseEnabled -> DropMouseEnabled(S, io.mouse)
      [] r = KittyEnabled -> DropKittyEnabled(S, io.kitty)

\* Mutant of remove_resource: the destructor's effect runs whether or not
\* the resource is present.
RemoveResourceAlways(S, r, io) ==
    [DropResource(S, r, io) EXCEPT !.world = S.world \ {r}]

\* commands.remove_resource::<R>(): takes the value out of the world and
\* drops it; nothing happens when the resource is absent.
RemoveResource(S, r, io) ==
    IF r \in S.world
    THEN [DropResource(S, r, io) EXCEPT !.world = S.world \ {r}]
    ELSE S

\* commands.insert_resource(value): a value already present is replaced and
\* dropped.
InsertResource(S, r, io) ==
    IF r \in S.world
    THEN DropResource(S, r, io)
    ELSE [S EXCEPT !.world = S.world \cup {r}]

Insert(r) == [op |-> "insert", res |-> r]
Remove(r) == [op |-> "remove", res |-> r]

ApplyCommand(S, c, io) ==
    IF c.op = "insert" THEN InsertResource(S, c.res, io)
    ELSE RemoveResource(S, c.res, io)

\* The host applies a command queue in order.
RECURSIVE ApplyQueue(_, _, _)
ApplyQueue(S, q, io) ==
    IF q = <<>> THEN S
    ELSE ApplyQueue(ApplyCommand(S, Head(q), io), Tail(q), io)

\* Mutant of the cleanup coordinator: the context is removed first.
CleanupContextFirst ==
    <<Remove(RatatuiContext), Remove(KittyEnabled), Remove(MouseEnabled)>>

\* The body of the cleanup coordinator: the three removals it queues for one
\* exit signal, in program order.
Cleanup == <<Remove(KittyEnabled), Remove(MouseEnabled), Remove(RatatuiContext)>>

RECURSIVE Repeat(_, _)
Repeat(q, n) == IF n = 0 THEN <<>> ELSE q \o Repeat(q, n - 1)

Commit(S) ==
    /\ world' = S.world
    /\ dev' = S.dev
    /\ log' = S.log
    /\ diag' = S.diag
    /\ dropRestores' = S.restores
    /\ dropFailures' = S.failures
    /\ ioFailed' = S.iofail

\* Values that are alive: the resources of the world and the payloads of the
\* insert commands still queued.
Live == world \cup {r \in Resources : \E i \in 1..Len(queue) : queue[i] = Insert(r)}


\* ---------------------------------------------------------- the plugin group

\* PluginGroupBuilder::add: the plugin is appended to the group, enabled.
Add(builder, p) == Append(builder, [plugin |-> p, enabled |-> TRUE])

\* Mutant of disable: the group is left as it was.
DisableNothing(builder, p) == builder

\* PluginGroupBuilder::disable::<P>(): the entry of P stays in the group but
\* is not built.
Disable(builder, p) ==
    [i \in 1..Len(builder) |->
        IF builder[i].plugin = p THEN [builder[i] EXCEPT !.enabled = FALSE]
        ELSE builder[i]]

\* Mutant of configure_plugin_group: the kitty and the mouse option each
\* disable the other's plugin.
ConfigurePluginGroupCrossed(group, builder) ==
    LET b0 == Add(Add(Add(Add(Add(Add(builder, "CleanupPlugin"), "ErrorPlugin"),
                  "EventPlugin"), "KittyPlugin"), "MousePlugin"), "TranslationPlugin")
        b1 == IF ~group.kitty THEN Disable(b0, "MousePlugin") ELSE b0
        b2 == IF ~group.mouse THEN Disable(b1, "KittyPlugin") ELSE b1
    IN  IF ~group.forwarding THEN Disable(b2, "TranslationPlugin") ELSE b2

\* CrosstermContext::configure_plugin_group: all six plugins are added, then
\* the ones whose option is off are disabled.
ConfigurePluginGroup(group, builder) ==
    LET b0 == Add(Add(Add(Add(Add(Add(builder, "CleanupPlugin"), "ErrorPlugin"),
                  "EventPlugin"), "KittyPlugin"), "MousePlugin"), "TranslationPlugin")
        b1 == IF ~group.kitty THEN Disable(b0, "KittyPlugin") ELSE b0
        b2 == IF ~group.mouse THEN Disable(b1, "MousePlugin") ELSE b1
    IN  IF ~group.forwarding THEN Disable(b2, "TranslationPlugin") ELSE b2

\* RatatuiPlugins::build of ratatui_plugin.rs.
Build(group) == ConfigurePluginGroup(group, Add(<<>>, "ContextPlugin"))

\* RatatuiPlugins::build of ratatui.rs: the optional plugins are added only
\* when their option is on.
BuildTerminal(group) ==
    LET b0 == Add(Add(Add(<<>>, "ErrorPlugin"), "TerminalPlugin"), "EventPlugin")
        b1 == IF group.kitty THEN Add(b0, "KittyPlugin") ELSE b0
        b2 == IF group.mouse THEN Add(b1, "MousePlugin") ELSE b1
    IN  IF group.forwarding THEN Add(b2, "KeyboardPlugin") ELSE b2

\* The plugins the app builds: the enabled entries of the group.
Enabled(builder) ==
    {builder[i].plugin : i \in {j \in 1..Len(builder) : builder[j].enabled}}

\* The plugins active in this session.
ActivePlugins ==
    Enabled(IF coordinator = "observer" THEN Build(opts) ELSE BuildTerminal(opts))

\* -------------------------------------------------------- the event decoder

\* Raw driver events: a key in the base encoding, the same key reported in
\* the extended keyboard protocol's encoding (with its phase), a mouse
\* click, a resize, and a malformed sequence.
BaseKey == [kind |-> "key", enc |-> "base", code |-> "q", phase |-> "press"]
ExtendedKey == [kind |-> "key", enc |-> "extended", code |-> "q", phase |-> "release"]
MouseClick == [kind |-> "mouse", enc |-> "sgr", code |-> "left", phase |-> "down"]
Resized == [kind |-> "resize", enc |-> "signal", code |-> "40x12", phase |-> "none"]
Malformed == [kind |-> "junk", enc |-> "none", code |-> "none", phase |-> "none"]
RawEvents == {BaseKey, ExtendedKey, MouseClick, Resized, Malformed}

KeyEvent(code, kind) == [type |-> "KeyEvent", code |-> code, phase |-> kind]
MouseEvent(button, action) == [type |-> "MouseEvent", code |-> button, phase |-> action]
ResizeEvent(size) == [type |-> "ResizeEvent", code |-> size, phase |-> "none"]

\* Mutant of Decode: with the extended protocol negotiated, every key is
\* read in the extended encoding and a base-encoded key is not recognised.
DecodeExtendedOnly(raw, flags) ==
    CASE raw.kind = "key" /\ raw.enc = "base" ->
            IF KittyEnabled \in flags THEN <<>> ELSE <<KeyEvent(raw.code, "press")>>
      [] raw.kind = "key" /\ raw.enc = "extended" ->
            IF KittyEnabled \in flags THEN <<KeyEvent(raw.code, raw.phase)>> ELSE <<>>
      [] raw.kind = "mouse" ->
            IF MouseEnabled \in flags THEN <<MouseEvent(raw.code, raw.phase)>> ELSE <<>>
      [] raw.kind = "resize" -> <<ResizeEvent(raw.code)>>
      [] OTHER -> <<>>

\* Decoding of one raw event into zero or more events.  A base-encoded key
\* is a press of its key; the richer shapes of a capability are recognised
\* only while its flag is registered; anything else unknown is dropped.
Decode(raw, flags) ==
    CASE raw.kind = "key" /\ raw.enc = "base" -> <<KeyEvent(raw.code, "press")>>
      [] raw.kind = "key" /\ raw.enc = "extended" ->
            IF KittyEnabled \in flags THEN <<KeyEvent(raw.code, raw.phase)>> ELSE <<>>
      [] raw.kind = "mouse" ->
            IF MouseEnabled \in flags THEN <<MouseEvent(raw.code, raw.phase)>> ELSE <<>>
      [] raw.kind = "resize" -> <<ResizeEvent(raw.code)>>
      [] OTHER -> <<>>

\* The raw events raws as the driver queues them, numbered from n + 1 in
\* the order of their arrival.
Tag(raws, n) == [i \in 1..Len(raws) |-> [raw |-> raws[i], seq |-> n + i]]

\* The events decoded from one pending raw event, stamped with the number
\* of the raw event they come from and of the poll that read it.
Emit(p, flags, poll) ==
    LET evs == Decode(p.raw, flags)
    IN  [i \in 1..Len(evs) |-> [event |-> evs[i], src |-> p.seq, poll |-> poll]]

RECURSIVE DrainNewestFirst(_, _, _)
\* Mutant of Drain: the pending events are read newest first.
DrainNewestFirst(pending, flags, poll) ==
    IF pending = <<>> THEN <<>>
    ELSE Emit(pending[Len(pending)], flags, poll)
            \o DrainNewestFirst(SubSeq(pending, 1, Len(pending) - 1), flags, poll)

RECURSIVE Drain(_, _, _)
\* poll(): reads every pending raw event, oldest first, without blocking,
\* and decodes each.
Drain(pending, flags, poll) ==
    IF pending = <<>> THEN <<>>
    ELSE Emit(Head(pending), flags, poll) \o Drain(Tail(pending), flags, poll)

\* What the driver may hold when the event system runs in a cycle.
CycleInputs == {<<>>} \cup {<<r>> : r \in RawEvents}

\* ------------------------------------------------------------------ startup

Init ==
    /\ coordinator \in {"observer", "system"}
    /\ opts \in [kitty : BOOLEAN, mouse : BOOLEAN, forwarding : BOOLEAN]
    /\ phase = "Startup"
    /\ initPc = "idle"
    /\ ran = {}
    /\ world = {}
    /\ queue = <<>>
    /\ dev = InitialDevice
    /\ log = <<>>
    /\ diag = <<>>
    /\ front = "blank"
    /\ exitEvents = 0
    /\ unread = 0
    /\ cleanupRan = FALSE
    /\ panicked = FALSE
    /\ ioFailed = FALSE
    /\ cleanupApplied = FALSE
    /\ exitsRaised = 0
    /\ ctxCreated = 0
    /\ dropRestores = 0
    /\ dropFailures = 0
    /\ calls = <<>>
    /\ rawIn = <<>>
    /\ delivered = <<>>
    /\ arrived = <<>>
    /\ polls = 0
    /\ backend = NoBackend
    /\ image = NoImage
    /\ resized = <<>>

\* context_setup / setup, first half: RatatuiContext::init() up to
\* stdout.execute(EnterAlternateScreen)?.  An Err returned by a system is
\* handed to the host's error handler, which panics.
ContextSetupEnter(ok) ==
    /\ phase = "Startup"
    /\ initPc = "idle"
    /\ ~panicked
    /\ IF ok
       THEN /\ dev' = DevApply(dev, "EnterAlternateScreen")
            /\ log' = Append(log, "EnterAlternateScreen")
            /\ initPc' = "entered"
            /\ UNCHANGED <<panicked, ioFailed>>
       ELSE /\ initPc' = "failed"
            /\ panicked' = TRUE
            /\ ioFailed' = TRUE
            /\ UNCHANGED <<dev, log>>
    /\ UNCHANGED <<coordinator, opts, phase, ran, world, queue, diag, front,
                   exitEvents, unread, cleanupRan, cleanupApplied, exitsRaised,
                   ctxCreated, dropRestores, dropFailures, calls,
                   rawIn, delivered, arrived, polls,
                   backend, image, resized>>

\* Mutant of context_setup: the Err of init() is dropped and a context is
\* inserted whatever init() returned.
ContextSetupFinishInsertAnyway(okRaw, okTerm) ==
    /\ phase = "Startup"
    /\ initPc = "entered"
    /\ IF okRaw
       THEN /\ dev' = DevApply(dev, "EnableRawMode")
            /\ log' = Append(log, "EnableRawMode")
       ELSE UNCHANGED <<dev, log>>
    /\ queue' = Append(queue, Insert(RatatuiContext))
    /\ ctxCreated' = ctxCreated + 1
    /\ initPc' = IF okRaw /\ okTerm THEN "done" ELSE "failed"
    /\ panicked' = (panicked \/ ~(okRaw /\ okTerm))
    /\ ioFailed' = (ioFailed \/ ~(okRaw /\ okTerm))
    /\ UNCHANGED <<coordinator, opts, phase, ran, world, diag, front,
                   exitEvents, unread, cleanupRan, cleanupApplied, exitsRaised,
                   dropRestores, dropFailures, calls,
                   rawIn, delivered, arrived, polls,
                   backend, image, resized>>

\* context_setup / setup, second half: enable_raw_mode()?, Terminal::new()?,
\* then commands.insert_resource(terminal).
ContextSetupFinish(okRaw, okTerm) ==
    /\ phase = "Startup"
    /\ initPc = "entered"
    /\ IF okRaw
       THEN /\ dev' = DevApply(dev, "EnableRawMode")
            /\ log' = Append(log, "EnableRawMode")
       ELSE UNCHANGED <<dev, log>>
    /\ IF okRaw /\ okTerm
       THEN /\ queue' = Append(queue, Insert(RatatuiContext))
            /\ ctxCreated' = ctxCreated + 1
            /\ initPc' = "done"
            /\ UNCHANGED <<panicked, ioFailed>>
       ELSE /\ initPc' = "failed"
            /\ panicked' = TRUE
            /\ ioFailed' = TRUE
            /\ UNCHANGED <<queue, ctxCreated>>
    /\ UNCHANGED <<coordinator, opts, phase, ran, world, diag, front,
                   exitEvents, unread, cleanupRan, cleanupApplied, exitsRaised,
                   dropRestores, dropFailures, calls,
                   rawIn, delivered, arrived, polls,
                   backend, image, resized>>

\* Mutant of mouse_setup: the flag is queued before the enabling write is
\* made, so it is registered also when the write fails.
MouseSetupFlagFirst(ok) ==
    /\ phase = "Startup"
    /\ "MousePlugin" \in ActivePlugins
    /\ "mouse" \notin ran
    /\ ~panicked
    /\ ran' = ran \cup {"mouse"}
    /\ queue' = Append(queue, Insert(MouseEnabled))
    /\ IF ok
       THEN /\ dev' = DevApply(dev, "EnableMouseCapture")
            /\ log' = Append(log, "EnableMouseCapture")
            /\ UNCHANGED <<panicked, ioFailed>>
       ELSE /\ panicked' = TRUE
            /\ ioFailed' = TRUE
            /\ UNCHANGED <<dev, log>>
    /\ UNCHANGED <<coordinator, opts, phase, initPc, world, diag, front,
                   exitEvents, unread, cleanupRan, cleanupApplied, exitsRaised,
                   ctxCreated, dropRestores, dropFailures, calls,
                   rawIn, delivered, arrived, polls,
                   backend, image, resized>>

\* mouse_setup / setup of MousePlugin: stdout().execute(EnableMouseCapture)?,
\* then commands.insert_resource(MouseEnabled).
MouseSetup(ok) ==
    /\ phase = "Startup"
    /\ "MousePlugin" \in ActivePlugins
    /\ "mouse" \notin ran
    /\ ~panicked
    /\ ran' = ran \cup {"mouse"}
    /\ IF ok
       THEN /\ dev' = DevApply(dev, "EnableMouseCapture")
            /\ log' = Append(log, "EnableMouseCapture")
            /\ queue' = Append(queue, Insert(MouseEnabled))
            /\ UNCHANGED <<panicked, ioFailed>>
       ELSE /\ panicked' = TRUE
            /\ ioFailed' = TRUE
            /\ UNCHANGED <<dev, log, queue>>
    /\ UNCHANGED <<coordinator, opts, phase, initPc, world, diag, front,
                   exitEvents, unread, cleanupRan, cleanupApplied, exitsRaised,
                   ctxCreated, dropRestores, dropFailures, calls,
                   rawIn, delivered, arrived, polls,
                   backend, image, resized>>

\* The startup system of KittyPlugin: best-effort enabling of the extended
\* keyboard protocol; the flag is registered only when enabling succeeded.
KittySetup(ok) ==
    /\ phase = "Startup"
    /\ "KittyPlugin" \in ActivePlugins
    /\ "kitty" \notin ran
    /\ ~panicked
    /\ ran' = ran \cup {"kitty"}
    /\ IF ok
       THEN /\ dev' = DevApply(dev, "PushKeyboardEnhancementFlags")
            /\ log' = Append(log, "PushKeyboardEnhancementFlags")
            /\ queue' = Append(queue, Insert(KittyEnabled))
       ELSE UNCHANGED <<dev, log, queue>>
    /\ UNCHANGED <<coordinator, opts, phase, initPc, world, diag, front,
                   exitEvents, unread, cleanupRan, panicked, ioFailed,
                   cleanupApplied, exitsRaised, ctxCreated, dropRestores,
                   dropFailures, calls,
                   rawIn, delivered, arrived, polls,
                   backend, image, resized>>

\* End of the Startup schedule: every startup system has run and the host
\* applies their queued commands.
StartupSync ==
    /\ phase = "Startup"
    /\ ~panicked
    /\ initPc = "done"
    /\ "MousePlugin" \in ActivePlugins => "mouse" \in ran
    /\ "KittyPlugin" \in ActivePlugins => "kitty" \in ran
    /\ \E io \in IoChoices : Commit(ApplyQueue(Cur, queue, io))
    /\ queue' = <<>>
    /\ phase' = "First"
    /\ UNCHANGED <<coordinator, opts, initPc, ran, front, exitEvents, unread,
                   cleanupRan, panicked, cleanupApplied, exitsRaised,
                   ctxCreated, calls,
                   rawIn, delivered, arrived, polls,
                   backend, image, resized>>

\* A startup system returned Err: once the systems already running have
\* finished, the panic unwinds out of the schedule.
StartupUnwind ==
    /\ phase = "Startup"
    /\ panicked
    /\ initPc # "entered"
    /\ phase' = "Dropping"
    /\ UNCHANGED <<coordinator, opts, initPc, ran, world, queue, dev, log,
                   diag, front, exitEvents, unread, cleanupRan, panicked,
                   ioFailed, cleanupApplied, exitsRaised, ctxCreated,
                   dropRestores, dropFailures, calls,
                   rawIn, delivered, arrived, polls,
                   backend, image, resized>>


\* ---------------------------------------------------------------- the cycle

\* A system raises the exit signal in the current slot.  Written with an
\* EventWriter it is buffered in Events<AppExit>: the runner sees it at the
\* end of the cycle and cleanup_system's EventReader the next time it runs.
\* Triggered, it runs the observers of AppExit at once, their commands
\* included, and is not buffered.
RaiseExit(d) ==
    /\ phase \in SlotSet
    /\ exitsRaised < MaxExitSignals
    /\ exitsRaised' = exitsRaised + 1
    /\ IF d = "write"
       THEN /\ exitEvents' = exitEvents + 1
            /\ unread' = unread + 1
            /\ UNCHANGED <<world, dev, log, diag, dropRestores, dropFailures,
                           ioFailed, cleanupApplied>>
       ELSE /\ UNCHANGED <<exitEvents, unread>>
            /\ IF coordinator = "observer"
               THEN /\ \E io \in IoChoices : Commit(ApplyQueue(Cur, Cleanup, io))
                    /\ cleanupApplied' = TRUE
               ELSE UNCHANGED <<world, dev, log, diag, dropRestores,
                                dropFailures, ioFailed, cleanupApplied>>
    /\ UNCHANGED <<coordinator, opts, phase, initPc, ran, queue, front,
                   cleanupRan, panicked, ctxCreated, calls,
                   rawIn, delivered, arrived, polls,
                   backend, image, resized>>

\* A system panics (the demo's 'p' key): the panic unwinds out of the
\* schedule and of the runner, which destroys the app.
SystemPanic ==
    /\ phase \in SlotSet
    /\ panicked' = TRUE
    /\ phase' = "Dropping"
    /\ UNCHANGED <<coordinator, opts, initPc, ran, world, queue, dev, log,
                   diag, front, exitEvents, unread, cleanupRan, ioFailed,
                   cleanupApplied, exitsRaised, ctxCreated, dropRestores,
                   dropFailures, calls,
                   rawIn, delivered, arrived, polls,
                   backend, image, resized>>

\* The schedule First ends.
Advance ==
    /\ phase = "First"
    /\ phase' = "PreUpdate"
    /\ UNCHANGED <<coordinator, opts, initPc, ran, world, queue, dev, log,
                   diag, front, exitEvents, unread, cleanupRan, panicked,
                   ioFailed, cleanupApplied, exitsRaised, ctxCreated,
                   dropRestores, dropFailures, calls,
                   rawIn, delivered, arrived, polls,
                   backend, image, resized>>

\* The event system of EventPlugin in PreUpdate: the raw events the driver
\* holds are read and decoded, and their events written for this cycle's
\* consumers.
EventSystem(raws) ==
    /\ phase = "PreUpdate"
    /\ "EventPlugin" \in ActivePlugins
    /\ arrived' = raws
    /\ delivered' = Drain(Tag(raws, 0), world, 0)
    /\ phase' = "Update"
    /\ UNCHANGED <<coordinator, opts, initPc, ran, world, queue, dev, log,
                   diag, front, exitEvents, unread, cleanupRan, panicked,
                   ioFailed, cleanupApplied, exitsRaised, ctxCreated,
                   dropRestores, dropFailures, calls, rawIn, polls,
                   backend, image, resized>>

\* draw_system in Update: context.draw(..)? flushes the cells that differ
\* from the last frame and hides the cursor.  The system needs
\* ResMut<RatatuiContext>: without the resource its parameters do not
\* validate, and like an Err of draw that ends in the error handler's panic.
DrawSystem(ok) ==
    /\ phase = "Update"
    /\ IF RatatuiContext \in world /\ ok
       THEN /\ log' = IF front = "hello" THEN log ELSE Append(log, "Draw")
            /\ front' = "hello"
            /\ dev' = DevApply(dev, "Hide")
            /\ phase' = "PostUpdate"
            /\ UNCHANGED <<panicked, ioFailed>>
       ELSE /\ panicked' = TRUE
            /\ ioFailed' = (ioFailed \/ RatatuiContext \in world)
            /\ phase' = "Dropping"
            /\ UNCHANGED <<log, front, dev>>
    /\ UNCHANGED <<coordinator, opts, initPc, ran, world, queue, diag,
                   exitEvents, unread, cleanupRan, cleanupApplied, exitsRaised,
                   ctxCreated, dropRestores, dropFailures, calls,
                   rawIn, delivered, arrived, polls,
                   backend, image, resized>>

\* cleanup_system in PostUpdate: for every AppExit its EventReader has not
\* read yet, queue the three removals.
CleanupSystem ==
    /\ phase = "PostUpdate"
    /\ coordinator = "system"
    /\ ~cleanupRan
    /\ queue' = queue \o Repeat(Cleanup, unread)
    /\ unread' = 0
    /\ cleanupRan' = TRUE
    /\ UNCHANGED <<coordinator, opts, phase, initPc, ran, world, dev, log,
                   diag, front, exitEvents, panicked, ioFailed, cleanupApplied,
                   exitsRaised, ctxCreated, dropRestores, dropFailures, calls,
                   rawIn, delivered, arrived, polls,
                   backend, image, resized>>

\* End of PostUpdate: the host applies the commands queued in the schedule.
PostUpdateSync ==
    /\ phase = "PostUpdate"
    /\ coordinator = "system" => cleanupRan
    /\ \E io \in IoChoices : Commit(ApplyQueue(Cur, queue, io))
    /\ cleanupApplied' = (cleanupApplied \/ queue # <<>>)
    /\ queue' = <<>>
    /\ phase' = "Last"
    /\ UNCHANGED <<coordinator, opts, initPc, ran, front, exitEvents, unread,
                   cleanupRan, panicked, exitsRaised, ctxCreated, calls,
                   rawIn, delivered, arrived, polls,
                   backend, image, resized>>

\* End of the cycle: the runner leaves its loop when Events<AppExit> holds
\* an event, and the app is destroyed; otherwise the next cycle starts.
\* The events of the cycle have been consumed.
RunnerCheck ==
    /\ phase = "Last"
    /\ cleanupRan' = FALSE
    /\ phase' = IF exitEvents > 0 THEN "Dropping" ELSE "First"
    /\ arrived' = <<>>
    /\ delivered' = <<>>
    /\ UNCHANGED <<coordinator, opts, initPc, ran, world, queue, dev, log,
                   diag, front, exitEvents, unread, panicked, ioFailed,
                   cleanupApplied, exitsRaised, ctxCreated, dropRestores,
                   dropFailures, calls, rawIn, polls,
                   backend, image, resized>>

\* -------------------------------------------------- destruction of the app

\* The app is destroyed (the runner returned, or a panic unwinds): the
\* values still alive are dropped, in an order the sources do not fix.
DropStep(r) ==
    /\ phase = "Dropping"
    /\ r \in Live
    /\ \E io \in IoChoices :
          Commit([DropResource(Cur, r, io) EXCEPT !.world = world \ {r}])
    /\ queue' = SelectSeq(queue, LAMBDA c : c # Insert(r))
    /\ UNCHANGED <<coordinator, opts, phase, initPc, ran, front, exitEvents,
                   unread, cleanupRan, panicked, cleanupApplied, exitsRaised,
                   ctxCreated, calls,
                   rawIn, delivered, arrived, polls,
                   backend, image, resized>>

\* Nothing is left to drop: the process ends.
Finish ==
    /\ phase = "Dropping"
    /\ Live = {}
    /\ phase' = "Done"
    /\ queue' = <<>>
    /\ UNCHANGED <<coordinator, opts, initPc, ran, world, dev, log, diag,
                   front, exitEvents, unread, cleanupRan, panicked, ioFailed,
                   cleanupApplied, exitsRaised, ctxCreated, dropRestores,
                   dropFailures, calls,
                   rawIn, delivered, arrived, polls,
                   backend, image, resized>>

Next ==
    \/ \E ok \in BOOLEAN : ContextSetupEnter(ok)
    \/ \E okRaw, okTerm \in BOOLEAN : ContextSetupFinish(okRaw, okTerm)
    \/ \E ok \in BOOLEAN : MouseSetup(ok)
    \/ \E ok \in BOOLEAN : KittySetup(ok)
    \/ StartupSync
    \/ StartupUnwind
    \/ \E d \in Deliveries : RaiseExit(d)
    \/ SystemPanic
    \/ Advance
    \/ \E raws \in CycleInputs : EventSystem(raws)
    \/ \E ok \in BOOLEAN : DrawSystem(ok)
    \/ CleanupSystem
    \/ PostUpdateSync
    \/ RunnerCheck
    \/ \E r \in Resources : DropStep(r)
    \/ Finish

Spec == Init /\ [][Next]_vars

\* ------------------------------------------------- restore() called directly

\* The devices restore() may be called on.
Devices == [alt : BOOLEAN, raw : BOOLEAN, cursor : BOOLEAN, mouse : BOOLEAN, kitty : BOOLEAN]

RestoreInit ==
    /\ coordinator = "observer"
    /\ opts = [kitty |-> FALSE, mouse |-> FALSE, forwarding |-> FALSE]
    /\ phase = "Explicit"
    /\ initPc = "idle"
    /\ ran = {}
    /\ world = {}
    /\ queue = <<>>
    /\ dev \in Devices
    /\ log = <<>>
    /\ diag = <<>>
    /\ front = "blank"
    /\ exitEvents = 0
    /\ unread = 0
    /\ cleanupRan = FALSE
    /\ panicked = FALSE
    /\ ioFailed = FALSE
    /\ cleanupApplied = FALSE
    /\ exitsRaised = 0
    /\ ctxCreated = 0
    /\ dropRestores = 0
    /\ dropFailures = 0
    /\ calls = <<>>
    /\ rawIn = <<>>
    /\ delivered = <<>>
    /\ arrived = <<>>
    /\ polls = 0
    /\ backend = NoBackend
    /\ image = NoImage
    /\ resized = <<>>

\* RatatuiContext::restore() called by the application; fail names the
\* operation that fails (0: none).
CallRestore(fail) ==
    /\ phase = "Explicit"
    /\ Len(calls) < MaxRestoreCalls
    /\ LET r == Restore(dev, fail)
       IN /\ dev' = r.dev
          /\ log' = log \o r.writes
          /\ ioFailed' = (ioFailed \/ ~r.ok)
          /\ calls' = Append(calls, [fail |-> fail, ok |-> r.ok,
                                     writes |-> r.writes,
                                     attempted |-> r.attempted,
                                     dev |-> r.dev])
    /\ UNCHANGED <<coordinator, opts, phase, initPc, ran, world, queue, diag,
                   front, exitEvents, unread, cleanupRan, panicked,
                   cleanupApplied, exitsRaised, ctxCreated, dropRestores,
                   dropFailures, rawIn, delivered, arrived, polls,
                   backend, image, resized>>

RestoreNext == \E fail \in 0..3 : CallRestore(fail)

RestoreSpec == RestoreInit /\ [][RestoreNext]_vars


\* ---------------------------------------------- init() called directly

\* Cap on the number of init() calls and handle drops in ApiSpec.
MaxApiCalls == 3

\* The operations of init(), in program order; the last one, Terminal::new,
\* writes nothing to the device.
InitSteps == <<"EnterAlternateScreen", "EnableRawMode", "TerminalNew">>

\* RatatuiContext::init(): EnterAlternateScreen?, enable_raw_mode()?,
\* Terminal::new(backend)?.  fail = 0: Ok(handle); fail = k: the k-th
\* operation fails and the `?` returns at once.  Nothing in it looks at
\* whether a handle already exists.
InitContext(d, fail) ==
    LET n == IF fail = 0 THEN 3 ELSE fail - 1
        done == SelectSeq(SubSeq(InitSteps, 1, n), LAMBDA w : w # "TerminalNew")
    IN [dev |-> DevApplyAll(d, done), writes |-> done, ok |-> (fail = 0)]

\* Handles constructed and not yet destroyed.
LiveHandles == ctxCreated - dropRestores

ApiInit ==
    /\ coordinator = "observer"
    /\ opts = [kitty |-> FALSE, mouse |-> FALSE, forwarding |-> FALSE]
    /\ phase = "Api"
    /\ initPc = "idle"
    /\ ran = {}
    /\ world = {}
    /\ queue = <<>>
    /\ dev = InitialDevice
    /\ log = <<>>
    /\ diag = <<>>
    /\ front = "blank"
    /\ exitEvents = 0
    /\ unread = 0
    /\ cleanupRan = FALSE
    /\ panicked = FALSE
    /\ ioFailed = FALSE
    /\ cleanupApplied = FALSE
    /\ exitsRaised = 0
    /\ ctxCreated = 0
    /\ dropRestores = 0
    /\ dropFailures = 0
    /\ calls = <<>>
    /\ rawIn = <<>>
    /\ delivered = <<>>
    /\ arrived = <<>>
    /\ polls = 0
    /\ backend = NoBackend
    /\ image = NoImage
    /\ resized = <<>>

\* The application calls RatatuiContext::init() and keeps the handle it gets.
CallInit(fail) ==
    /\ phase = "Api"
    /\ Len(calls) < MaxApiCalls
    /\ LET r == InitContext(dev, fail)
       IN /\ dev' = r.dev
          /\ log' = log \o r.writes
          /\ ioFailed' = (ioFailed \/ ~r.ok)
          /\ ctxCreated' = IF r.ok THEN ctxCreated + 1 ELSE ctxCreated
          /\ calls' = Append(calls, [op |-> "init", fail |-> fail, ok |-> r.ok,
                                     live |-> LiveHandles])
    /\ UNCHANGED <<coordinator, opts, phase, initPc, ran, world, queue, diag,
                   front, exitEvents, unread, cleanupRan, panicked,
                   cleanupApplied, exitsRaised, dropRestores, dropFailures,
                   rawIn, delivered, arrived, polls,
                   backend, image, resized>>

\* The application lets go of a handle: Drop for RatatuiContext runs.
DropHandle(fail) ==
    /\ phase = "Api"
    /\ Len(calls) < MaxApiCalls
    /\ LiveHandles > 0
    /\ Commit(DropRatatuiContext(Cur, fail))
    /\ calls' = Append(calls, [op |-> "drop", fail |-> fail, ok |-> (fail = 0),
                               live |-> LiveHandles])
    /\ UNCHANGED <<coordinator, opts, phase, initPc, ran, queue, front,
                   exitEvents, unread, cleanupRan, panicked, cleanupApplied,
                   exitsRaised, ctxCreated, rawIn, delivered, arrived, polls,
                   backend, image, resized>>

ApiNext ==
    \/ \E fail \in 0..3 : CallInit(fail)
    \/ \E fail \in 0..3 : DropHandle(fail)

ApiSpec == ApiInit /\ [][ApiNext]_vars

\* ------------------------------------------------- the decoder across polls

\* Raw events that arrive in a run of DecodeSpec, and polls made in it.
MaxRaw == 3
MaxPolls == 3

\* The writes of a startup that registered the flags of world.
StartupWrites(w) ==
    <<"EnterAlternateScreen", "EnableRawMode">>
        \o (IF MouseEnabled \in w THEN <<"EnableMouseCapture">> ELSE <<>>)
        \o (IF KittyEnabled \in w THEN <<"PushKeyboardEnhancementFlags">> ELSE <<>>)

\* A session after a startup without failure of the context or of the mouse
\* capture: the context is registered, MouseEnabled iff mouse capture was
\* asked for, KittyEnabled only if the extended protocol was asked for.
DecodeInit ==
    /\ coordinator = "observer"
    /\ opts \in [kitty : BOOLEAN, mouse : BOOLEAN, forwarding : {FALSE}]
    /\ phase = "Decoding"
    /\ initPc = "done"
    /\ ran = {n \in {"mouse", "kitty"} : opts[n]}
    /\ world \in {w \in SUBSET Resources :
                    /\ RatatuiContext \in w
                    /\ MouseEnabled \in w <=> opts.mouse
                    /\ KittyEnabled \in w => opts.kitty}
    /\ queue = <<>>
    /\ dev = DevApplyAll(InitialDevice, StartupWrites(world))
    /\ log = StartupWrites(world)
    /\ diag = <<>>
    /\ front = "blank"
    /\ exitEvents = 0
    /\ unread = 0
    /\ cleanupRan = FALSE
    /\ panicked = FALSE
    /\ ioFailed = (opts.kitty /\ KittyEnabled \notin world)
    /\ cleanupApplied = FALSE
    /\ exitsRaised = 0
    /\ ctxCreated = 1
    /\ dropRestores = 0
    /\ dropFailures = 0
    /\ calls = <<>>
    /\ rawIn = <<>>
    /\ delivered = <<>>
    /\ arrived = <<>>
    /\ polls = 0
    /\ backend = NoBackend
    /\ image = NoImage
    /\ resized = <<>>

\* The terminal sends a raw event: it joins the driver's read-ahead queue.
RawArrives(raw) ==
    /\ phase = "Decoding"
    /\ Len(arrived) < MaxRaw
    /\ rawIn' = rawIn \o Tag(<<raw>>, Len(arrived))
    /\ arrived' = Append(arrived, raw)
    /\ UNCHANGED <<coordinator, opts, phase, initPc, ran, world, queue, dev,
                   log, diag, front, exitEvents, unread, cleanupRan, panicked,
                   ioFailed, cleanupApplied, exitsRaised, ctxCreated,
                   dropRestores, dropFailures, calls, delivered, polls,
                   backend, image, resized>>

\* poll(): everything the driver holds is read and decoded, and the events
\* are delivered after those of the earlier polls.
Poll ==
    /\ phase = "Decoding"
    /\ polls < MaxPolls
    /\ polls' = polls + 1
    /\ delivered' = delivered \o Drain(rawIn, world, polls + 1)
    /\ rawIn' = <<>>
    /\ UNCHANGED <<coordinator, opts, phase, initPc, ran, world, queue, dev,
                   log, diag, front, exitEvents, unread, cleanupRan, panicked,
                   ioFailed, cleanupApplied, exitsRaised, ctxCreated,
                   dropRestores, dropFailures, calls, arrived,
                   backend, image, resized>>

DecodeNext ==
    \/ \E raw \in RawEvents : RawArrives(raw)
    \/ Poll

DecodeSpec == DecodeInit /\ [][DecodeNext]_vars

\* --------------------------------------------------- the soft-render backend

\* WindowResized events raised in a run of SoftSpec.
MaxResizes == 2

\* The glyph cell of the mono 8x13 font and the grid init() allocates.
GlyphWidth == 8
GlyphHeight == 13
InitCols == 100
InitRows == 50

\* The largest u16.
U16Max == 2^16 - 1

\* Window sizes in pixels a WindowResized event may carry: smaller than one
\* glyph cell, ordinary, exactly at and beyond the u16 range of the grid.
PixelWidths == {0, 7, 8, 325, U16Max * GlyphWidth + 7, (U16Max + 1) * GlyphWidth}
PixelHeights == {0, 160, (U16Max + 2) * GlyphHeight}

\* The backend's pixmap of a grid: cols * glyph width by rows * glyph
\* height pixels, drawn from the cells.
Raster(cols, rows, cells) ==
    [width |-> cols * GlyphWidth, height |-> rows * GlyphHeight,
     data |-> <<cols, rows, cells>>]

\* SoftBackend::new(cols, rows, ..): a blank grid and its pixmap.
NewBackend(cols, rows) ==
    [cols |-> cols, rows |-> rows, cells |-> "blank",
     pixmap |-> Raster(cols, rows, "blank")]

\* Mutant of the cast: the value wraps around instead of saturating.
AsU16Wrapping(x) == x % (U16Max + 1)

\* `x as u16` of a float without fraction: saturating.
AsU16(x) == IF x < 0 THEN 0 ELSE IF x > U16Max THEN U16Max ELSE x

\* backend.resize(cols, rows): the grid and the pixmap are reallocated; what
\* the cells then hold is the backend's matter (cells).
ResizeBackend(cols, rows, cells) ==
    [cols |-> cols, rows |-> rows, cells |-> cells,
     pixmap |-> Raster(cols, rows, cells)]

\* The body of the loop of handle_resize_events for one event.
HandleResize(b, event, keep) ==
    LET av_wid == AsU16(event.width \div GlyphWidth)
        av_hei == AsU16(event.height \div GlyphHeight)
    IN  ResizeBackend(av_wid, av_hei, IF keep THEN b.cells ELSE "blank")

RECURSIVE HandleResizeNewestFirst(_, _, _)
\* Mutant of handle_resize_events: the events are applied newest first.
HandleResizeNewestFirst(b, events, keep) ==
    IF events = <<>> THEN b
    ELSE HandleResizeNewestFirst(HandleResize(b, events[Len(events)], keep),
                                 SubSeq(events, 1, Len(events) - 1), keep)

RECURSIVE HandleResizeEvents(_, _, _)
\* handle_resize_events: for event in resize_reader.read() { .. resize .. }.
HandleResizeEvents(b, events, keep) ==
    IF events = <<>> THEN b
    ELSE HandleResizeEvents(HandleResize(b, Head(events), keep), Tail(events), keep)

\* The history record of one event handled: its pixel size, the grid size
\* computed from it, and the index of the first record of its cycle.
Handled(event, first) ==
    [op |-> "resize", n |-> event.n, width |-> event.width,
     height |-> event.height, first |-> first,
     cols |-> AsU16(event.width \div GlyphWidth),
     rows |-> AsU16(event.height \div GlyphHeight)]

\* context.draw(..) of draw_system: the frame is written to the grid and the
\* pixmap is redrawn from it.
DrawBackend(b) ==
    [b EXCEPT !.cells = "hello", !.pixmap = Raster(b.cols, b.rows, "hello")]

\* Image::new(Extent3d {width, height, ..}, .., data, ..) from
\* get_pixmap_width(), get_pixmap_height(), get_pixmap_data_as_rgba().
PixmapImage(b) ==
    [width |-> b.pixmap.width, height |-> b.pixmap.height, data |-> b.pixmap.data]

\* Mutant of the soft restore(): it makes the writes of the crossterm one.
RestoreSoftLeaves(d) ==
    [dev |-> DevApplyAll(d, RestoreSteps), writes |-> RestoreSteps, ok |-> TRUE]

\* restore() of the soft-render context: Ok(()).
RestoreSoft(d) == [dev |-> d, writes |-> <<>>, ok |-> TRUE]

\* The windowed defaults of RatatuiPlugins, before anything has run.
SoftInit ==
    /\ coordinator = "system"
    /\ opts = [kitty |-> FALSE, mouse |-> FALSE, forwarding |-> TRUE]
    /\ phase = "SoftStartup"
    /\ initPc = "idle"
    /\ ran = {}
    /\ world = {}
    /\ queue = <<>>
    /\ dev = InitialDevice
    /\ log = <<>>
    /\ diag = <<>>
    /\ front = "blank"
    /\ exitEvents = 0
    /\ unread = 0
    /\ cleanupRan = FALSE
    /\ panicked = FALSE
    /\ ioFailed = FALSE
    /\ cleanupApplied = FALSE
    /\ exitsRaised = 0
    /\ ctxCreated = 0
    /\ dropRestores = 0
    /\ dropFailures = 0
    /\ calls = <<>>
    /\ rawIn = <<>>
    /\ delivered = <<>>
    /\ arrived = <<>>
    /\ polls = 0
    /\ backend = NoBackend
    /\ image = NoImage
    /\ resized = <<>>

\* setup in Startup: RatatuiContext::init() and insert_resource, applied at
\* the end of the schedule.
SoftSetup ==
    /\ phase = "SoftStartup"
    /\ backend' = NewBackend(InitCols, InitRows)
    /\ world' = world \cup {RatatuiContext}
    /\ ctxCreated' = ctxCreated + 1
    /\ initPc' = "done"
    /\ phase' = "PostStartup"
    /\ UNCHANGED <<coordinator, opts, ran, queue, dev, log, diag, front,
                   exitEvents, unread, cleanupRan, panicked, ioFailed,
                   cleanupApplied, exitsRaised, dropRestores, dropFailures,
                   calls, rawIn, delivered, arrived, polls, image, resized>>

\* terminal_render_setup in PostStartup: the first image is made from the
\* pixmap and published.
TerminalRenderSetup ==
    /\ phase = "PostStartup"
    /\ RatatuiContext \in world
    /\ image' = PixmapImage(backend)
    /\ phase' = "SoftPreUpdate"
    /\ UNCHANGED <<coordinator, opts, initPc, ran, world, queue, dev, log,
                   diag, front, exitEvents, unread, cleanupRan, panicked,
                   ioFailed, cleanupApplied, exitsRaised, ctxCreated,
                   dropRestores, dropFailures, calls, rawIn, delivered,
                   arrived, polls, backend, resized>>

\* The host window is resized: a WindowResized event is written.
WindowResized(width, height) ==
    /\ phase \in {"SoftPreUpdate", "SoftUpdate"}
    /\ Len(calls) + Len(resized) < MaxResizes
    /\ resized' = Append(resized, [n |-> Len(calls) + Len(resized) + 1,
                                   width |-> width, height |-> height])
    /\ UNCHANGED <<coordinator, opts, phase, initPc, ran, world, queue, dev,
                   log, diag, front, exitEvents, unread, cleanupRan, panicked,
                   ioFailed, cleanupApplied, exitsRaised, ctxCreated,
                   dropRestores, dropFailures, calls, rawIn, delivered,
                   arrived, polls, backend, image>>

\* handle_resize_events in PreUpdate.
ResizeSystem(keep) ==
    /\ phase = "SoftPreUpdate"
    /\ RatatuiContext \in world
    /\ backend' = HandleResizeEvents(backend, resized, keep)
    /\ calls' = calls \o [i \in 1..Len(resized) |-> Handled(resized[i], Len(calls) + 1)]
    /\ resized' = <<>>
    /\ ran' = {}
    /\ phase' = "SoftUpdate"
    /\ UNCHANGED <<coordinator, opts, initPc, world, queue, dev, log, diag,
                   front, exitEvents, unread, cleanupRan, panicked, ioFailed,
                   cleanupApplied, exitsRaised, ctxCreated, dropRestores,
                   dropFailures, rawIn, delivered, arrived, polls, image>>

\* draw_system of the application in Update.
SoftDraw ==
    /\ phase = "SoftUpdate"
    /\ "draw" \notin ran
    /\ RatatuiContext \in world
    /\ backend' = DrawBackend(backend)
    /\ ran' = ran \cup {"draw"}
    /\ UNCHANGED <<coordinator, opts, phase, initPc, world, queue, dev, log,
                   diag, front, exitEvents, unread, cleanupRan, panicked,
                   ioFailed, cleanupApplied, exitsRaised, ctxCreated,
                   dropRestores, dropFailures, calls, rawIn, delivered,
                   arrived, polls, image, resized>>

\* Mutant of render_terminal_to_handle: the data of the image is replaced
\* and its extent kept.
RenderKeepsExtent ==
    /\ phase = "SoftUpdate"
    /\ "render" \notin ran
    /\ RatatuiContext \in world
    /\ image' = [image EXCEPT !.data = backend.pixmap.data]
    /\ ran' = ran \cup {"render"}
    /\ UNCHANGED <<coordinator, opts, phase, initPc, world, queue, dev, log,
                   diag, front, exitEvents, unread, cleanupRan, panicked,
                   ioFailed, cleanupApplied, exitsRaised, ctxCreated,
                   dropRestores, dropFailures, calls, rawIn, delivered,
                   arrived, polls, backend, resized>>

\* render_terminal_to_handle in Update: the published image is replaced by
\* a new one made from the pixmap.
RenderTerminalToHandle ==
    /\ phase = "SoftUpdate"
    /\ "render" \notin ran
    /\ RatatuiContext \in world
    /\ image' = PixmapImage(backend)
    /\ ran' = ran \cup {"render"}
    /\ UNCHANGED <<coordinator, opts, phase, initPc, world, queue, dev, log,
                   diag, front, exitEvents, unread, cleanupRan, panicked,
                   ioFailed, cleanupApplied, exitsRaised, ctxCreated,
                   dropRestores, dropFailures, calls, rawIn, delivered,
                   arrived, polls, backend, resized>>

\* The cycle ends; the runner starts the next one, or leaves its loop and
\* the app is destroyed.
SoftCycleEnd(exit) ==
    /\ phase = "SoftUpdate"
    /\ ran = {"draw", "render"}
    /\ phase' = IF exit THEN "SoftDropping" ELSE "SoftPreUpdate"
    /\ UNCHANGED <<coordinator, opts, initPc, ran, world, queue, dev, log,
                   diag, front, exitEvents, unread, cleanupRan, panicked,
                   ioFailed, cleanupApplied, exitsRaised, ctxCreated,
                   dropRestores, dropFailures, calls, rawIn, delivered,
                   arrived, polls, backend, image, resized>>

\* Drop for RatatuiContext of the soft-render backend: restore() once, an
\* Err would be printed with eprintln!.
SoftDrop ==
    /\ phase = "SoftDropping"
    /\ RatatuiContext \in world
    /\ LET r == RestoreSoft(dev)
       IN /\ dev' = r.dev
          /\ log' = log \o r.writes
          /\ diag' = IF r.ok THEN diag ELSE Append(diag, "Failed to restore terminal")
          /\ dropFailures' = IF r.ok THEN dropFailures ELSE dropFailures + 1
          /\ ioFailed' = (ioFailed \/ ~r.ok)
    /\ dropRestores' = dropRestores + 1
    /\ world' = world \ {RatatuiContext}
    /\ phase' = "SoftDone"
    /\ UNCHANGED <<coordinator, opts, initPc, ran, queue, front, exitEvents,
                   unread, cleanupRan, panicked, cleanupApplied, exitsRaised,
                   ctxCreated, calls, rawIn, delivered, arrived, polls,
                   backend, image, resized>>

SoftNext ==
    \/ SoftSetup
    \/ TerminalRenderSetup
    \/ \E width \in PixelWidths, height \in PixelHeights : WindowResized(width, height)
    \/ \E keep \in BOOLEAN : ResizeSystem(keep)
    \/ SoftDraw
    \/ RenderTerminalToHandle
    \/ \E exit \in BOOLEAN : SoftCycleEnd(exit)
    \/ SoftDrop

SoftSpec == SoftInit /\ [][SoftNext]_vars

\* ------------------------------------------------------------------- claims

Range(q) == {q[i] : i \in 1..Len(q)}

\* The writes that disable a capability.
DisableWrites == {"DisableMouseCapture", "PopKeyboardEnhancementFlags"}

\* Every write of l that is in W comes strictly before every
\* LeaveAlternateScreen write of l.
OrderedTeardown(l, W) ==
    \A i, j \in 1..Len(l) :
        (l[i] \in W /\ l[j] = "LeaveAlternateScreen") => i < j

\* C1: once the cleanup coordinator has handled an exit signal and its
\* removal commands are applied, every capability-disable write of the
\* driver-write log precedes the context's LeaveAlternateScreen write.
C1_CleanupOrder == cleanupApplied => OrderedTeardown(log, DisableWrites)

C1_Witness ==
    /\ cleanupApplied
    /\ world = {}
    /\ DisableWrites \subseteq Range(log)
    /\ "LeaveAlternateScreen" \in Range(log)

\* C2: after an ordinary quit (startup succeeded, no panic, no device
\* operation failed; the exit signal's teardown is done, by the coordinator
\* or by the end of the process) the device is as it was found: normal
\* screen, cursor visible, raw mode off, mouse capture and extended keyboard
\* disabled.
C2_OrdinaryQuitRestores ==
    (~ioFailed /\ ~panicked /\ (phase = "Done" \/ cleanupApplied))
        => dev = InitialDevice

C2_Witness ==
    /\ phase = "Done"
    /\ ~ioFailed /\ ~panicked
    /\ front = "hello"
    /\ {"EnterAlternateScreen", "EnableRawMode", "EnableMouseCapture",
        "PushKeyboardEnhancementFlags"} \subseteq Range(log)
    /\ dev = InitialDevice

\* C3: the teardown order also holds when the resources are destroyed by a
\* panicking exit path, without the coordinator having handled an exit
\* signal: the DisableMouseCapture write precedes the LeaveAlternateScreen
\* write.
C3_AbnormalOrder ==
    (panicked /\ ~cleanupApplied) => OrderedTeardown(log, {"DisableMouseCapture"})

\* C4: after a panic raised inside a system while the session is live, once
\* the process has finished unwinding the device is restored (no device
\* operation having failed): alternate screen left, cursor shown, raw mode
\* off, negotiated capabilities disabled.
C4_CrashRestores ==
    (phase = "Done" /\ panicked /\ ~ioFailed) => dev = InitialDevice

C4_Witness ==
    /\ phase = "Done"
    /\ panicked /\ ~ioFailed /\ ~cleanupApplied
    /\ front = "hello"
    /\ {"EnableMouseCapture", "DisableMouseCapture", "LeaveAlternateScreen",
        "DisableRawMode"} \subseteq Range(log)

\* C5: every exit signal, whatever its slot and its delivery, is followed by
\* the coordinator's teardown, its removal commands applied, before the
\* process exits.
C5_ExitTornDown ==
    (phase = "Done" /\ ~panicked /\ exitsRaised > 0) => cleanupApplied

\* The place of a write in the scenario start with mouse capture, draw
\* "hello", exit (0: the scenario does not name the write).
Rank(w) ==
    CASE w = "EnterAlternateScreen" -> 1
      [] w = "Draw" -> 2
      [] w = "DisableMouseCapture" -> 3
      [] w = "LeaveAlternateScreen" -> 4
      [] OTHER -> 0

\* C6: a session that starts, draws "hello" and receives an exit signal has
\* its driver-write log in the order enter-alternate-screen, "hello" write,
\* capability-disable write (DisableMouseCapture), leave-alternate-screen.
C6_HelloScenarioOrder ==
    (phase = "Done" /\ ~panicked /\ ~ioFailed /\ exitsRaised > 0 /\ front = "hello")
        => \A i, j \in 1..Len(log) :
              (i < j /\ Rank(log[i]) > 0 /\ Rank(log[j]) > 0)
                  => Rank(log[i]) <= Rank(log[j])

\* C7 as stated: a restore() that follows a successful restore() is a
\* no-op: when the device accepts every operation it returns Ok and emits no
\* write.
C7_RestoreIdempotent ==
    \A k \in 2..Len(calls) :
        (calls[k - 1].ok /\ calls[k].fail = 0)
            => (calls[k].ok /\ calls[k].writes = <<>>)

\* C7 as amended: a restore() that follows a successful restore() and meets
\* no device failure returns Ok and leaves the device in the state the first
\* one left it in (normal screen, cursor visible, raw mode off); it does
\* issue the same three operations again.
C7_RestoreSameState ==
    \A k \in 2..Len(calls) :
        (calls[k - 1].ok /\ calls[k].fail = 0)
            => /\ calls[k].ok
               /\ calls[k].dev = calls[k - 1].dev
               /\ ~calls[k].dev.alt /\ calls[k].dev.cursor /\ ~calls[k].dev.raw
               /\ calls[k].writes = RestoreSteps

C7_Witness ==
    /\ Len(calls) = 2
    /\ calls[1].ok /\ calls[2].ok
    /\ log = RestoreSteps \o RestoreSteps
    /\ dev.mouse

\* C8: when the leave-alternate-screen write of restore() fails, raw mode is
\* still disabled and the Err of the first failure is returned.
C8_RestoreAttemptsBoth ==
    \A k \in 1..Len(calls) :
        calls[k].fail = 1
            => /\ "DisableRawMode" \in Range(calls[k].attempted)
               /\ ~calls[k].dev.raw
               /\ ~calls[k].ok

\* C9: the destructor-triggered restore of the session's RatatuiContext runs
\* exactly once: never more often than a context was constructed, and when
\* the process has ended, once for the context constructed.
C9_RestoreOncePerContext ==
    /\ ctxCreated <= 1
    /\ dropRestores <= ctxCreated
    /\ phase = "Done" => dropRestores = ctxCreated
    /\ (cleanupApplied /\ RatatuiContext \notin Live) => dropRestores = ctxCreated

C9_Witness ==
    /\ phase = "Done"
    /\ exitsRaised = MaxExitSignals
    /\ cleanupApplied
    /\ ctxCreated = 1
    /\ dropRestores = 1

\* C10: a restore() that fails inside the destructor of RatatuiContext
\* writes one line to the diagnostic stream, and the destruction goes on:
\* the resource is gone and no panic is raised.
C10_DropFailureLogged ==
    [][dropFailures' > dropFailures
          => /\ Len(diag') = Len(diag) + 1
             /\ panicked' = panicked
             /\ RatatuiContext \notin world'
             /\ phase' = "Dropping" => phase = "Dropping"]_vars

C10_Witness ==
    /\ phase = "Done"
    /\ ~panicked
    /\ dropFailures = 1
    /\ diag = <<"Failed to restore terminal">>


\* C11: at most one terminal handle is live at any time: an init() called
\* while a handle made earlier is still alive returns an Err.
C11_SingleHandle ==
    /\ LiveHandles <= 1
    /\ \A k \in 1..Len(calls) :
          (calls[k].op = "init" /\ calls[k].live > 0) => ~calls[k].ok


\* The number of times the write w occurs in l.
Count(l, w) == Cardinality({i \in 1..Len(l) : l[i] = w})

\* C12: a DisableMouseCapture write is emitted only by a step that destroys
\* the MouseEnabled flag, and the session emits at most one, however often
\* the removal of the flag is requested.
C12_DisableOnce ==
    [][Count(log', "DisableMouseCapture") > Count(log, "DisableMouseCapture")
          => /\ Count(log', "DisableMouseCapture") = 1
             /\ MouseEnabled \in Live
             /\ MouseEnabled \notin Live']_vars

\* Two exit signals were read by cleanup_system in one cycle, the flag was
\* removed by their commands, and the app has been dropped since.
C12_Witness ==
    /\ phase = "Done"
    /\ coordinator = "system"
    /\ exitsRaised = 2 /\ unread = 0
    /\ cleanupApplied
    /\ Count(log, "DisableMouseCapture") = 1

\* C13: a rejected EnableMouseCapture write is not an error: the step of
\* mouse_setup in which the write fails raises no panic, and startup goes on.
C13_MouseRejectionSilent ==
    [][("mouse" \notin ran /\ "mouse" \in ran' /\ log' = log)
          => (panicked' = panicked /\ phase' = "Startup")]_vars

\* C16: no capability-enable write precedes the enter-alternate-screen
\* write: whenever EnableMouseCapture is in the driver-write log,
\* EnterAlternateScreen is in it at an earlier position.
C16_InitBeforeNegotiation ==
    \A i \in 1..Len(log) :
        log[i] = "EnableMouseCapture"
            => \E j \in 1..(i - 1) : log[j] = "EnterAlternateScreen"

\* C17: one writer at a time: while context_setup is between its two device
\* operations, mouse_setup does not run.
C17_SingleWriter ==
    [][(initPc = "entered" /\ initPc' = "entered") => ("mouse" \in ran' => "mouse" \in ran)]_vars


\* The plugins that are active whatever the options are.
AlwaysOn ==
    IF coordinator = "observer"
    THEN {"ContextPlugin", "CleanupPlugin", "ErrorPlugin", "EventPlugin"}
    ELSE {"TerminalPlugin", "ErrorPlugin", "EventPlugin"}

\* The plugin that forwards input to the host's input system.
Forwarder == IF coordinator = "observer" THEN "TranslationPlugin" ELSE "KeyboardPlugin"

\* C14: for every combination of the three options the active plugins are
\* the always-on ones, plus KittyPlugin iff enable_kitty_protocol, plus
\* MousePlugin iff enable_mouse_capture, plus the input forwarder iff
\* enable_input_forwarding.
C14_ActivePlugins ==
    ActivePlugins = AlwaysOn
                      \cup (IF opts.kitty THEN {"KittyPlugin"} ELSE {})
                      \cup (IF opts.mouse THEN {"MousePlugin"} ELSE {})
                      \cup (IF opts.forwarding THEN {Forwarder} ELSE {})

\* A session with mouse capture and forwarding on and kitty off, whose
\* startup has run: the mouse flag is registered, no kitty write was made.
C14_Witness ==
    /\ coordinator = "observer"
    /\ opts = [kitty |-> FALSE, mouse |-> TRUE, forwarding |-> TRUE]
    /\ phase = "Update"
    /\ MouseEnabled \in world
    /\ "kitty" \notin ran


\* Disable writes of the mouse capture and its enable write.
MouseWrites == {"EnableMouseCapture", "DisableMouseCapture"}

\* C15: in a session started with enable_mouse_capture = false no
\* mouse-capture write is ever made and no MouseEnabled flag ever exists;
\* the event system given a raw mouse click delivers no MouseEvent, and
\* its step raises no panic.
C15_MouseOff ==
    [][~opts.mouse =>
          /\ Range(log') \cap MouseWrites = {}
          /\ MouseEnabled \notin Live'
          /\ \A i \in 1..Len(delivered') : delivered'[i].event.type # "MouseEvent"
          /\ (phase = "PreUpdate" /\ phase' = "Update") => ~panicked']_vars

\* A session without mouse capture whose event system was given a raw
\* mouse click: nothing was delivered, the cycle went on to draw, and the
\* coordinator's teardown has run since.
C15_Witness ==
    /\ ~opts.mouse
    /\ coordinator = "observer"
    /\ arrived = <<MouseClick>>
    /\ delivered = <<>>
    /\ phase = "Last"
    /\ front = "hello"
    /\ ~panicked
    /\ cleanupApplied

\* The number of raw events read so far.
Consumed == Len(arrived) - Len(rawIn)

\* C18: the delivered events keep the arrival order of the raw events,
\* within a poll and across polls: they are the decodings of the raw events
\* read so far, each once, in the order of arrival, and the raw events not
\* yet read wait in the order of arrival.
C18_ArrivalOrder ==
    /\ \A i \in 1..Len(delivered) :
          /\ delivered[i].src \in 1..Consumed
          /\ <<delivered[i].event>> = Decode(arrived[delivered[i].src], world)
    /\ \A i, j \in 1..Len(delivered) :
          i < j => /\ delivered[i].src < delivered[j].src
                   /\ delivered[i].poll <= delivered[j].poll
    /\ \A k \in 1..Consumed :
          Decode(arrived[k], world) # <<>>
              => \E i \in 1..Len(delivered) : delivered[i].src = k
    /\ \A i \in 1..Len(rawIn) :
          rawIn[i] = [raw |-> arrived[Consumed + i], seq |-> Consumed + i]

\* A key, a mouse click and a resize arrived in this order, the key was read
\* by one poll and the other two by a later one; all three were delivered.
C18_Witness ==
    /\ arrived = <<BaseKey, MouseClick, Resized>>
    /\ Len(delivered) = 3
    /\ delivered[1].poll < delivered[2].poll
    /\ delivered[2].poll = delivered[3].poll
    /\ delivered[3].event.type = "ResizeEvent"

C25_InitFailureReturned ==
    initPc = "failed"
        => /\ panicked
           /\ RatatuiContext \notin Live
           /\ ctxCreated = 0
           /\ dropRestores = 0
           /\ Range(log) \cap Range(RestoreSteps) = {}

\* init() failed after it had entered the alternate screen, and the process
\* has ended.
C25_Witness ==
    /\ initPc = "failed"
    /\ "EnterAlternateScreen" \in Range(log)
    /\ phase = "Done"

\* C26: a step that destroys the MouseEnabled flag while its
\* DisableMouseCapture write fails writes a line about it to the diagnostic
\* stream, and raises no panic.
C26_DisableFailureLogged ==
    [][(/\ MouseEnabled \in Live
        /\ MouseEnabled \notin Live'
        /\ Count(log', "DisableMouseCapture") = Count(log, "DisableMouseCapture"))
          => /\ \E i \in (Len(diag) + 1)..Len(diag') :
                    diag'[i] # "Failed to restore terminal"
             /\ panicked' = panicked]_vars

\* C27: a failed init leaves the device as it found it: once init() has
\* failed, the terminal is neither in the alternate screen nor in raw mode.
C27_FailedInitRollsBack ==
    initPc = "failed" => (dev.alt = InitialDevice.alt /\ dev.raw = InitialDevice.raw)

\* C28: the context is present whenever a system that uses it is about to
\* run: in the Update slot, where draw_system runs, RatatuiContext is in
\* the world.
C28_ContextPresent ==
    phase = "Update" => RatatuiContext \in world


\* C21: for the soft-render backend restore() is a no-op: through the whole
\* session, its destruction included, no write reaches a device, the device
\* state stays as it was and no failure is logged; the step that destroys
\* the context calls restore() once and leaves the grid as it is.
C21_SoftRestoreNoOp ==
    [][/\ log' = <<>> /\ dev' = InitialDevice /\ diag' = <<>> /\ dropFailures' = 0
       /\ (RatatuiContext \in world /\ RatatuiContext \notin world')
             => (dropRestores' = dropRestores + 1 /\ backend' = backend)]_vars

\* The soft-render context has been destroyed, after a resize and a draw.
C21_Witness ==
    /\ phase = "SoftDone"
    /\ dropRestores = 1
    /\ RatatuiContext \notin world
    /\ Len(calls) > 0
    /\ backend.cells = "hello"

FloorClamped(w, g, c) ==
    \/ c = U16Max /\ w >= U16Max * g
    \/ c < U16Max /\ c >= 0 /\ c * g <= w /\ w < (c + 1) * g

\* C23: every resize notification handled set the grid to
\* cols = floor(w / glyph width) and rows = floor(h / glyph height), each
\* clamped into the u16 range; the notifications are handled in the order of
\* their arrival, and the grid has the size computed from the last one.
C23_ResizeFloorClamped ==
    /\ \A k \in 1..Len(calls) :
          /\ calls[k].n = k
          /\ FloorClamped(calls[k].width, GlyphWidth, calls[k].cols)
          /\ FloorClamped(calls[k].height, GlyphHeight, calls[k].rows)
    /\ (calls # <<>> /\ backend # NoBackend)
          => /\ backend.cols = calls[Len(calls)].cols
             /\ backend.rows = calls[Len(calls)].rows

\* Two notifications were handled in one cycle: the first beyond the u16
\* range in both directions, the last smaller than one glyph cell in width;
\* the grid has the size of the last.
C23_Witness ==
    /\ Len(calls) = 2
    /\ calls[1].first = calls[2].first
    /\ calls[1].cols = U16Max /\ calls[1].width = (U16Max + 1) * GlyphWidth
    /\ calls[1].rows = U16Max
    /\ calls[2].width = 7 /\ calls[2].height = 160
    /\ backend.cols = 0 /\ backend.rows = 12

====
